---- MODULE Spec2Model ----
(***************************************************************************)
(* Verification model of the tool-invocation client layer:                 *)
(*   - MCPClient            (src/mcp_client.py)                            *)
(*   - MCPStdioClient       (src/mcp_stdio_client.py)                      *)
(*   - WhatsAppMCPClient._enforce_rate_limit (src/whatsapp_mcp_client.py)  *)
(* Every coroutine is cut at its await points; one action is the code      *)
(* that runs between two await points.                                     *)
(***************************************************************************)
EXTENDS Integers, Sequences, FiniteSets, TLC

(***************************************************************************)
(* Bounds of the model.                                                    *)
(***************************************************************************)
NumCallers == 2    \* coroutines calling MCPClient.execute_tool
MaxHealth == 2     \* health loop tasks that can be created
MaxHandles == 2    \* transport handles that can be opened
MaxInbox == 1      \* unread responses a transport buffers
MaxProbes == 1     \* probes the health loops issue
NumStdio == 2      \* coroutines using one MCPStdioClient
MaxId == 3         \* request ids one MCPStdioClient hands out
NumLimited == 2    \* coroutines calling _enforce_rate_limit of one client
MaxWindow == 4     \* entries of _request_timestamps, calls in progress included
MaxTick == 3       \* the clock advances second by second up to this time
Horizon == 62      \* no sleep ends after this time
messages_per_minute == 2   \* WhatsAppRateLimits.messages_per_minute, configured
chats_per_minute == 1      \* WhatsAppRateLimits.chats_per_minute, configured
requests_per_second == 1   \* WhatsAppRateLimits.requests_per_second, configured
CoroSteps == 2     \* await points of the coroutine handed to the sync bridge
MaxReady == 2      \* callbacks ready to run on the calling thread's event loop

(***************************************************************************)
(* Program constants.                                                      *)
(***************************************************************************)
default_per_minute == 30   \* max_per_minute of the other operation types
Minute == 60               \* the horizon of the window, in seconds
Second == 1                \* the horizon of the sub-window, in seconds
max_retries == 3   \* MCPServerConfig.max_retries
retry_delay == 1   \* MCPServerConfig.retry_delay, in seconds

Servers == {"wa"}
ConnTypes == {"stdio", "sse", "websocket"}     \* MCPConnectionType
Callers == 1..NumCallers
HealthIds == (NumCallers + 1)..(NumCallers + MaxHealth)
Procs == Callers \cup HealthIds
Handles == 1..MaxHandles

VARIABLES
  servers,             \* MCPClient.servers: name -> connection_type, "none" = no entry
  sessions,            \* MCPClient.sessions: name -> "none" | "active" | "inactive"
  connections,         \* MCPClient.connections: name -> handle, 0 = no entry
  health_check_tasks,  \* MCPClient._health_check_tasks: name -> task, 0 = no entry
  close_tasks,         \* _close_connection tasks created by remove_server, not yet run
  handles,             \* transport handles: [type, state]
  inbox,               \* per handle: ids of the responses the server wrote, not yet read
  pending,             \* requests the server has received and not yet answered
  task,                \* the coroutines: execute_tool callers and health loops
  probes,              \* number of health probes issued so far
  config,              \* the MCPServerConfig the user holds for each name
  hist                 \* connect directly followed by disconnect

(***************************************************************************)
(* MCPStdioClient (src/mcp_stdio_client.py).                               *)
(***************************************************************************)
VARIABLES
  process,       \* self.process: "none" while it is None, else the child's state
  initialized,   \* self.initialized
  request_id,    \* self.request_id
  stdout,        \* lines the running server has written, not yet read
  owed,          \* ids of the requests written to the running server, unanswered
  closed,        \* close() has run on this client
  notified,      \* notifications/initialized was sent after an accepted response
  call,          \* the coroutines inside initialize, call_tool or list_tools
  ret,           \* the most recent return of initialize, call_tool or list_tools
  sent_ids       \* ids of the requests written to a server, in the order written

scVars == <<process, initialized, request_id, stdout, owed, closed,
            notified, call, ret, sent_ids>>

(***************************************************************************)
(* The rate limiter of WhatsAppMCPClient (src/whatsapp_mcp_client.py).      *)
(***************************************************************************)
VARIABLES
  clock,                \* time.time(), in seconds
  _request_timestamps,  \* self._request_timestamps, each with its operation type
  lock_owner,           \* the coroutine holding self._rate_limit_lock, or 0
  lock_waiters,         \* the coroutines waiting for the lock, first come first
  limited,              \* the coroutines inside _enforce_rate_limit
  admitted,             \* the most recent return of _enforce_rate_limit
  same_second           \* returns at the time of the most recent one

rlVars == <<clock, _request_timestamps, lock_owner, lock_waiters, limited,
            admitted, same_second>>

(***************************************************************************)
(* The bridge from synchronous code to the coroutines: sync_wrapper        *)
(* (src/mcp_utils.py) and use_mcp_tool_sync (src/mcp_client.py).           *)
(***************************************************************************)
VARIABLES
  loop,       \* the calling thread's event loop: "none", "stopped", "running"
  running,    \* per thread, the number of event loops running on it
  wrapper,    \* where the calling thread is in the bridge, "out" when outside
  worker,     \* the thread of the executor the bridge created
  coro,       \* the coroutine: await points left, and its outcome
  ready,      \* callbacks ready to run on the calling thread's event loop
  served,     \* callbacks that loop ran since the bridge was last entered
  returned    \* the most recent return of the bridge, and the thread whose
              \* loop ran the coroutine

brVars == <<loop, running, wrapper, worker, coro, ready, served, returned>>

(***************************************************************************)
(* WhatsAppMCPClient and SyncWhatsAppMCPClient around their MCPClient      *)
(* (src/whatsapp_mcp_client.py, src/mcp_utils.py).                         *)
(***************************************************************************)
VARIABLES
  session,       \* self.session: is_authenticated and connection_status
  wa_op,         \* per caller, the WhatsApp method that awaits its execute_tool
  _initialized   \* SyncWhatsAppMCPClient._initialized

waVars == <<session, wa_op, _initialized>>

VARIABLE
  closing        \* the calls of _close_connection suspended in closing a
                 \* transport, each with the handle it read from connections

mcVars == <<servers, sessions, connections, health_check_tasks, close_tasks,
            handles, inbox, pending, task, probes, config, hist>>

(***************************************************************************)
(* The MCPClient state as one record, so that a handler that calls other   *)
(* handlers is the composition of their effects.                           *)
(***************************************************************************)
CS == [servers |-> servers, sessions |-> sessions, connections |-> connections,
       health_check_tasks |-> health_check_tasks, close_tasks |-> close_tasks,
       handles |-> handles, inbox |-> inbox, pending |-> pending,
       task |-> task]

Install(s) ==
  /\ servers' = s.servers
  /\ sessions' = s.sessions
  /\ connections' = s.connections
  /\ health_check_tasks' = s.health_check_tasks
  /\ close_tasks' = s.close_tasks
  /\ handles' = s.handles
  /\ inbox' = s.inbox
  /\ pending' = s.pending
  /\ task' = s.task

Min(S) == CHOOSE x \in S : \A y \in S : x <= y

IdleTask(k) ==
  [kind |-> k, pc |-> IF k = "user" THEN "idle" ELSE "unused", name |-> "wa",
   attempt |-> 0, reqid |-> 0, handle |-> 0, exc |-> "none",
   out |-> "none", result |-> 0, attempts |-> 0, reconnects |-> 0,
   sleeps |-> 0, connFails |-> 0, otherFails |-> 0, delay |-> 0,
   slept |-> 0]

FreeHandles(s) == {h \in Handles : s.handles[h].state = "unused"}
FreeHealth(s) == {t \in HealthIds : s.task[t].pc = "unused"}

(***************************************************************************)
(* Observation of a caller's execute_tool: counts its attempts, backoff    *)
(* sleeps, reconnects and failures by class.                               *)
(***************************************************************************)
Note(s, p, f) ==
  IF s.task[p].kind = "user" THEN [s EXCEPT !.task[p][f] = @ + 1] ELSE s

\* the backoff sleep of p is over: one more sleep, of the time asked for
Woke(s, p) ==
  IF s.task[p].kind = "user"
  THEN [s EXCEPT !.task[p].sleeps = @ + 1,
                 !.task[p].slept = @ + s.task[p].delay]
  ELSE s

(***************************************************************************)
(* What the program can no longer observe is forgotten, so that task and   *)
(* handle slots can model the next created task or transport.              *)
(***************************************************************************)
Live(s, h) ==
  \/ \E n \in Servers : s.connections[n] = h
  \/ \E p \in Procs : s.task[p].pc = "wait" /\ s.task[p].handle = h

Recycle(s) ==
  [s EXCEPT
     !.task = [t \in Procs |->
       IF /\ t \in HealthIds
          /\ s.task[t].pc \in {"hdone", "cancelled"}
          /\ \A n \in Servers : s.health_check_tasks[n] # t
       THEN IdleTask("health")
       ELSE s.task[t]],
     \* a transport that is gone and that no map entry and no waiting call
     \* refers to is forgotten
     !.handles = [h \in Handles |->
       IF ~Live(s, h) /\ s.handles[h].state \in {"closed", "dead"}
       THEN [type |-> "none", state |-> "unused"]
       ELSE s.handles[h]],
     \* what the server sends on a transport that no map entry and no
     \* waiting call refers to is never read
     !.inbox = [h \in Handles |-> IF Live(s, h) THEN s.inbox[h] ELSE <<>>],
     !.pending = {r \in s.pending : Live(s, r.h)}]

\* connect creating the session before it knows whether the transport opened
connect_session_on_failure(s, n, ok) ==
  IF s.servers[n] = "none"
  THEN [s |-> s, ret |-> "raise"]
  ELSE IF ok /\ FreeHandles(s) # {} /\ FreeHealth(s) # {}
  THEN LET h == Min(FreeHandles(s))
           t == Min(FreeHealth(s))
       IN [s |-> [s EXCEPT
                    !.handles[h] = [type |-> s.servers[n], state |-> "open"],
                    !.connections[n] = h,
                    !.sessions[n] = "active",
                    !.health_check_tasks[n] = t,
                    !.task[t] = [IdleTask("health") EXCEPT !.pc = "hstart",
                                                           !.name = n]],
           ret |-> "true"]
  ELSE [s |-> [s EXCEPT !.sessions[n] = "active"], ret |-> "false"]

(***************************************************************************)
(* MCPClient.connect with _connect_sse/_connect_websocket/_connect_stdio.  *)
(* ok is the environment's answer: the transport could be opened.          *)
(* The entry of connections and of _health_check_tasks is overwritten.     *)
(***************************************************************************)
connect(s, n, ok) ==
  IF s.servers[n] = "none"
  THEN [s |-> s, ret |-> "raise"]
  ELSE IF ok /\ FreeHandles(s) # {} /\ FreeHealth(s) # {}
  THEN LET h == Min(FreeHandles(s))
           t == Min(FreeHealth(s))
       IN [s |-> [s EXCEPT
                    !.handles[h] = [type |-> s.servers[n], state |-> "open"],
                    !.connections[n] = h,
                    !.sessions[n] = "active",
                    !.health_check_tasks[n] = t,
                    !.task[t] = [IdleTask("health") EXCEPT !.pc = "hstart",
                                                           !.name = n]],
           ret |-> "true"]
  ELSE [s |-> s, ret |-> "false"]

(***************************************************************************)
(* Closing the transport handle raises when the child process of a stdio   *)
(* connection has already exited (Process.terminate: ProcessLookupError).  *)
(***************************************************************************)
CloseRaises(hd) == hd.type = "stdio" /\ hd.state = "dead"

\* _close_connection without the lines that mark the session inactive
close_connection_keeps_session(s, n) ==
  LET t == s.health_check_tasks[n]
      s1 == IF t # 0
            THEN [s EXCEPT !.task[t].pc =
                             IF @ \in {"hdone"} THEN @ ELSE "cancelled",
                           !.health_check_tasks[n] = 0]
            ELSE s
      h == s1.connections[n]
  IN IF h = 0 \/ CloseRaises(s1.handles[h])
     THEN s1
     ELSE [s1 EXCEPT !.handles[h].state = "closed",
                     !.connections[n] = 0]

(***************************************************************************)
(* MCPClient._close_connection.                                            *)
(***************************************************************************)
_close_connection(s, n) ==
  LET t == s.health_check_tasks[n]
      s1 == IF t # 0
            THEN [s EXCEPT !.task[t].pc =
                             IF @ \in {"hdone"} THEN @ ELSE "cancelled",
                           !.health_check_tasks[n] = 0]
            ELSE s
      h == s1.connections[n]
      inactive == IF s1.sessions[n] = "none" THEN "none" ELSE "inactive"
  IN IF h = 0
     THEN [s1 EXCEPT !.sessions[n] = inactive]
     ELSE IF CloseRaises(s1.handles[h])
     THEN s1
     ELSE [s1 EXCEPT !.handles[h].state = "closed",
                     !.connections[n] = 0,
                     !.sessions[n] = inactive]

(***************************************************************************)
(* One pass of the body of _health_check_loop after health_check returned: *)
(* reconnect when the probe failed, then the loop condition.               *)
(***************************************************************************)
HealthIter(s, t, healthy, ok) ==
  LET n == s.task[t].name
      s1 == IF healthy THEN s ELSE connect(s, n, ok).s
      me == [IdleTask("health") EXCEPT !.name = n]
  IN [s1 EXCEPT !.task[t] =
        [me EXCEPT !.pc = IF s1.connections[n] # 0 THEN "hsleep" ELSE "hdone"]]

(***************************************************************************)
(* execute_tool returns or raises out.                                     *)
(***************************************************************************)
Finish(s, p, out, ok) ==
  IF s.task[p].kind = "user"
  THEN [s EXCEPT !.task[p].pc = "done", !.task[p].out = out]
  ELSE HealthIter(s, p, out = "ok", ok)

\* the retry loop sleeping the base delay after every failed attempt
Fail_constant_delay(s, p, exc, ok) ==
  LET s1 == Note([s EXCEPT !.task[p].exc = exc], p,
                 IF exc = "MCPConnectionError" THEN "connFails"
                 ELSE "otherFails")
  IN IF s.task[p].attempt < max_retries - 1
     THEN [s1 EXCEPT !.task[p].pc = "backoff",
                     !.task[p].delay = retry_delay]
     ELSE Finish(s1, p, "MCPToolError", ok)

(***************************************************************************)
(* The except branch of the retry loop of execute_tool, up to its sleep.   *)
(***************************************************************************)
Fail(s, p, exc, ok) ==
  LET s1 == Note([s EXCEPT !.task[p].exc = exc], p,
                 IF exc = "MCPConnectionError" THEN "connFails"
                 ELSE "otherFails")
  IN IF s.task[p].attempt < max_retries - 1
     THEN [s1 EXCEPT !.task[p].pc = "backoff",
                     !.task[p].delay = retry_delay * (2 ^ s.task[p].attempt)]
     ELSE Finish(s1, p, "MCPToolError", ok)

(***************************************************************************)
(* The id of a request envelope: str(uuid.uuid4()), a value no other       *)
(* request of the run carries.                                             *)
(***************************************************************************)
RequestId(p, attempt) == 10 * p + attempt + 1

(***************************************************************************)
(* _execute_tool_request up to the await of the response.  A stream has    *)
(* one reader at a time: readline() or recv() called while another call    *)
(* waits on the same stream raises RuntimeError, after the request has     *)
(* been written.                                                           *)
(***************************************************************************)
Busy(s, p, h) ==
  \E q \in Procs \ {p} : s.task[q].pc = "wait" /\ s.task[q].handle = h

Attempt(s, p, ok) ==
  LET n == s.task[p].name
      h == s.connections[n]
      id == RequestId(p, s.task[p].attempt)
      s0 == Note(s, p, "attempts")
      s1 == [s0 EXCEPT !.task[p].reqid = id, !.task[p].handle = h]
      wrote == [s1 EXCEPT !.pending = @ \cup {[h |-> h, id |-> id]}]
      sent == IF Busy(s, p, h)
              THEN Fail(wrote, p, "Exception", ok)
              ELSE [wrote EXCEPT !.task[p].pc = "wait"]
  IN IF h = 0 THEN Fail(s0, p, "Exception", ok)
     ELSE IF s.handles[h].type = "sse"
     THEN IF s.handles[h].state = "open"
          THEN [s1 EXCEPT !.task[p].pc = "wait"]
          ELSE Fail(s1, p, "Exception", ok)
     ELSE IF s.handles[h].type = "websocket"
     THEN IF s.handles[h].state = "open"
          THEN sent
          ELSE Fail(s1, p, "MCPConnectionError", ok)
     ELSE IF s.handles[h].state = "open"
          THEN sent
          ELSE Fail(s1, p, "Exception", ok)

\* the retry loop without its reconnect
AfterSleep_no_reconnect(s, p, ok1, ok2) ==
  Attempt([Woke(s, p) EXCEPT !.task[p].attempt = @ + 1], p, ok2)

(***************************************************************************)
(* The retry loop of execute_tool from the end of the backoff sleep to     *)
(* the next await.                                                         *)
(***************************************************************************)
AfterSleep(s, p, ok1, ok2) ==
  LET n == s.task[p].name
      s0 == Woke(s, p)
      r == connect(s0, n, ok1)
      s1 == Note(r.s, p, "reconnects")
  IN IF s.task[p].exc = "MCPConnectionError"
     THEN IF r.ret = "raise"
          THEN Finish(s1, p, "MCPConnectionError", ok2)
          ELSE Attempt([s1 EXCEPT !.task[p].attempt = @ + 1], p, ok2)
     ELSE Attempt([s0 EXCEPT !.task[p].attempt = @ + 1], p, ok2)

(***************************************************************************)
(* execute_tool from its entry to the first await of a response.           *)
(***************************************************************************)
execute_tool(s, p, ok1, ok2) ==
  LET n == s.task[p].name
      r == connect(s, n, ok1)
      s1 == IF s.connections[n] = 0 THEN r.s ELSE s
  IN IF s.connections[n] = 0 /\ r.ret # "true"
     THEN Finish(s1, p, "MCPConnectionError", ok2)
     ELSE IF s1.servers[n] = "none"
     THEN Finish(s1, p, "KeyError", ok2)
     ELSE Attempt(s1, p, ok2)

Other == [op |-> "other", name |-> "wa"]
Waiting(p) == task[p].pc = "wait" /\ task[p].handle # 0

(***************************************************************************)
(* Public operations of MCPClient, called by the user of the client.       *)
(***************************************************************************)
add_server(n) ==
  /\ UNCHANGED <<probes, config, scVars, rlVars, brVars, waVars, closing>>
  /\ servers[n] = "none"
  /\ servers' = [servers EXCEPT ![n] = config[n]]
  /\ hist' = Other
  /\ UNCHANGED <<sessions, connections, health_check_tasks, close_tasks,
                 handles, inbox, pending, task>>

remove_server(n) ==
  /\ UNCHANGED <<probes, config, scVars, rlVars, brVars, waVars, closing>>
  /\ servers[n] # "none"
  /\ servers' = [servers EXCEPT ![n] = "none"]
  /\ close_tasks' = IF connections[n] # 0 THEN close_tasks \cup {n}
                    ELSE close_tasks
  /\ hist' = Other
  /\ UNCHANGED <<sessions, connections, health_check_tasks,
                 handles, inbox, pending, task>>

\* the task remove_server created runs _close_connection
RunCloseTask(n) ==
  /\ UNCHANGED <<probes, config, scVars, rlVars, brVars, waVars, closing>>
  /\ n \in close_tasks
  /\ Install(Recycle([_close_connection(CS, n) EXCEPT
                        !.close_tasks = @ \ {n}]))
  /\ hist' = Other

Connect(n, ok) ==
  LET r == connect(CS, n, ok)
  IN /\ UNCHANGED <<probes, config, scVars, rlVars, brVars, waVars, closing>>
     /\ Install(Recycle(r.s))
     /\ hist' = IF r.ret = "true" THEN [op |-> "connect_ok", name |-> n]
                ELSE Other

disconnect(n) ==
  /\ UNCHANGED <<probes, config, scVars, rlVars, brVars, waVars, closing>>
  /\ Install(Recycle(_close_connection(CS, n)))
  /\ hist' = IF hist = [op |-> "connect_ok", name |-> n]
             THEN [op |-> "connect_ok_disconnect", name |-> n]
             ELSE Other

(***************************************************************************)
(* _close_connection(n) cut at its await: the part up to                   *)
(* `await connection[...].close()` / `await process.wait()`.  The health   *)
(* task is cancelled and unregistered and the connection is read; without  *)
(* a connection, or when terminate() raises, the call ends here.  At most  *)
(* one close of a transport is in flight.                                  *)
(***************************************************************************)
CloseBegin(n) ==
  LET h == connections[n]
      t == health_check_tasks[n]
      s1 == IF t # 0
            THEN [CS EXCEPT !.task[t].pc =
                              IF @ \in {"hdone"} THEN @ ELSE "cancelled",
                            !.health_check_tasks[n] = 0]
            ELSE CS
  IN /\ [name |-> n, handle |-> h] \notin closing
     /\ IF h = 0 \/ CloseRaises(handles[h])
        THEN /\ Install(Recycle(_close_connection(CS, n)))
             /\ UNCHANGED closing
        ELSE /\ Install(Recycle(s1))
             /\ closing' = closing \cup {[name |-> n, handle |-> h]}
     /\ hist' = Other
     /\ UNCHANGED <<probes, config, scVars, rlVars, brVars, waVars>>

(***************************************************************************)
(* The suspended _close_connection c resumes: the transport it read is     *)
(* closed, `del self.connections[name]` deletes whatever entry the name    *)
(* has now, then the session the name has now is marked inactive; without  *)
(* an entry the del raises KeyError and the except clause only logs.       *)
(***************************************************************************)
CloseEnd(c) ==
  LET n == c.name
      s1 == [CS EXCEPT !.handles[c.handle].state =
                         IF @ = "open" THEN "closed" ELSE @]
  IN /\ c \in closing
     /\ closing' = closing \ {c}
     /\ Install(Recycle(
          IF connections[n] = 0
          THEN s1
          ELSE [s1 EXCEPT !.connections[n] = 0,
                          !.sessions[n] = IF @ = "none" THEN @
                                          ELSE "inactive"]))
     /\ hist' = Other
     /\ UNCHANGED <<probes, config, scVars, rlVars, brVars, waVars>>

(***************************************************************************)
(* MCPClient.disconnect_all: _close_connection of every name that has an   *)
(* entry in connections; each of them catches its own exceptions.          *)
(***************************************************************************)
RECURSIVE CloseAll(_, _)
CloseAll(s, names) ==
  IF names = {} THEN s
  ELSE LET n == CHOOSE x \in names : TRUE
       IN CloseAll(_close_connection(s, n), names \ {n})

disconnect_all ==
  /\ UNCHANGED <<probes, config, scVars, rlVars, brVars, waVars, closing>>
  /\ Install(Recycle(CloseAll(CS, {n \in Servers : connections[n] # 0})))
  /\ hist' = [op |-> "disconnect_all", name |-> "wa"]

(***************************************************************************)
(* A caller's execute_tool, cut at its await points.                       *)
(***************************************************************************)
ExecStart(p, n, ok1, ok2) ==
  /\ UNCHANGED <<probes, config, scVars, rlVars, brVars, waVars, closing>>
  /\ p \in Callers
  /\ task[p].pc = "idle"
  /\ Install(Recycle(execute_tool([CS EXCEPT !.task[p].name = n], p, ok1, ok2)))
  /\ hist' = Other

\* an envelope with an error field ending the call instead of the attempt
RecvResponse_error_final(p, kind, ok) ==
  /\ UNCHANGED <<probes, config, scVars, rlVars, brVars, waVars, closing>>
  /\ Waiting(p)
  /\ handles[task[p].handle].type # "sse"
  /\ inbox[task[p].handle] # <<>>
  /\ LET h == task[p].handle
         r == Head(inbox[h])
         s == [CS EXCEPT !.inbox[h] = Tail(@)]
     IN Install(Recycle(
          IF kind = "error"
          THEN Finish(s, p, "MCPToolError", ok)
          ELSE Finish([s EXCEPT !.task[p].result = r], p, "ok", ok)))
  /\ hist' = Other

\* websocket.recv() / stdout.readline() returns the next incoming envelope
RecvResponse(p, kind, ok) ==
  /\ UNCHANGED <<probes, config, scVars, rlVars, brVars, waVars, closing>>
  /\ Waiting(p)
  /\ handles[task[p].handle].type # "sse"
  /\ inbox[task[p].handle] # <<>>
  /\ LET h == task[p].handle
         r == Head(inbox[h])
         s == [CS EXCEPT !.inbox[h] = Tail(@)]
     IN Install(Recycle(
          IF kind = "error"
          THEN Fail(s, p, "MCPToolError", ok)
          ELSE Finish([s EXCEPT !.task[p].result = r], p, "ok", ok)))
  /\ hist' = Other

\* the POST of _execute_sse_request is answered: HTTP pairs the response
RecvSSE(p, kind, ok) ==
  /\ UNCHANGED <<probes, config, scVars, rlVars, brVars, waVars, closing>>
  /\ Waiting(p)
  /\ handles[task[p].handle].type = "sse"
  /\ handles[task[p].handle].state = "open"
  /\ Install(Recycle(
       IF kind = "error"
       THEN Fail(CS, p, "MCPToolError", ok)
       ELSE Finish([CS EXCEPT !.task[p].result = task[p].reqid], p, "ok", ok)))
  /\ hist' = Other

\* a timeout that tears the connection down before the attempt fails
RecvTimeout_closing(p, ok) ==
  /\ UNCHANGED <<probes, config, scVars, rlVars, brVars, waVars, closing>>
  /\ Waiting(p)
  /\ Install(Recycle(Fail(_close_connection(CS, task[p].name), p,
                          "MCPToolError", ok)))
  /\ hist' = Other

\* asyncio.TimeoutError: no response within the per-call timeout
RecvTimeout(p, ok) ==
  /\ UNCHANGED <<probes, config, scVars, rlVars, brVars, waVars, closing>>
  /\ Waiting(p)
  /\ Install(Recycle(Fail(CS, p, "MCPToolError", ok)))
  /\ hist' = Other

\* the transport is gone: ConnectionClosed on a websocket, end of file on
\* a pipe (json.loads of the empty line fails), closed HTTP session
RecvClosed(p, ok) ==
  /\ UNCHANGED <<probes, config, scVars, rlVars, brVars, waVars, closing>>
  /\ Waiting(p)
  /\ handles[task[p].handle].state # "open"
  /\ inbox[task[p].handle] = <<>>
  /\ Install(Recycle(
       Fail(CS, p, IF handles[task[p].handle].type = "websocket"
                   THEN "MCPConnectionError" ELSE "Exception", ok)))
  /\ hist' = Other

\* the backoff sleep of the retry loop ends
Backoff(p, ok1, ok2) ==
  /\ UNCHANGED <<probes, config, scVars, rlVars, brVars, waVars, closing>>
  /\ task[p].pc = "backoff"
  /\ Install(Recycle(AfterSleep(CS, p, ok1, ok2)))
  /\ hist' = Other

(***************************************************************************)
(* _health_check_loop.                                                     *)
(***************************************************************************)
HealthStart(t) ==
  /\ UNCHANGED <<probes, config, scVars, rlVars, brVars, waVars, closing>>
  /\ task[t].pc = "hstart"
  /\ Install(Recycle([CS EXCEPT !.task[t].pc =
       IF servers[task[t].name] = "none" \/ connections[task[t].name] = 0
       THEN "hdone" ELSE "hsleep"]))
  /\ hist' = Other

\* the sleep of the loop ends and health_check finds no connection (or
\* execute_tool finds no config): the probe fails at once and the loop
\* reconnects
HealthDown(t, ok) ==
  /\ task[t].pc = "hsleep"
  /\ connections[task[t].name] = 0 \/ servers[task[t].name] = "none"
  /\ Install(Recycle(HealthIter(CS, t, FALSE, ok)))
  /\ hist' = Other
  /\ UNCHANGED <<probes, config, scVars, rlVars, brVars, waVars, closing>>

\* the sleep of the loop ends and health_check calls execute_tool("ping")
HealthPing(t, ok) ==
  /\ task[t].pc = "hsleep"
  /\ connections[task[t].name] # 0 /\ servers[task[t].name] # "none"
  /\ probes < MaxProbes
  /\ probes' = probes + 1
  /\ Install(Recycle(Attempt(CS, t, ok)))
  /\ hist' = Other
  /\ UNCHANGED <<config, scVars, rlVars, brVars, waVars, closing>>

(***************************************************************************)
(* The server side of a transport.                                         *)
(***************************************************************************)
ServerRespond(h, id) ==
  /\ UNCHANGED <<probes, config, scVars, rlVars, brVars, waVars, closing>>
  /\ [h |-> h, id |-> id] \in pending
  /\ handles[h].state = "open"
  /\ Len(inbox[h]) < MaxInbox
  /\ pending' = pending \ {[h |-> h, id |-> id]}
  /\ inbox' = [inbox EXCEPT ![h] = Append(@, id)]
  /\ hist' = Other
  /\ UNCHANGED <<servers, sessions, connections, health_check_tasks,
                 close_tasks, handles, task>>

\* the child process exits, or the peer closes the socket or the stream
PeerClose(h) ==
  /\ UNCHANGED <<probes, config, scVars, rlVars, brVars, waVars, closing>>
  /\ handles[h].state = "open"
  /\ Install(Recycle([CS EXCEPT !.handles[h].state = "dead"]))
  /\ hist' = Other

McInit ==
  /\ servers = [n \in Servers |-> "none"]
  /\ sessions = [n \in Servers |-> "none"]
  /\ connections = [n \in Servers |-> 0]
  /\ health_check_tasks = [n \in Servers |-> 0]
  /\ close_tasks = {}
  /\ handles = [h \in Handles |-> [type |-> "none", state |-> "unused"]]
  /\ inbox = [h \in Handles |-> <<>>]
  /\ pending = {}
  /\ task = [p \in Procs |-> IdleTask(IF p \in Callers THEN "user" ELSE "health")]
  /\ probes = 0
  /\ config \in [Servers -> ConnTypes]
  /\ hist = Other

\* the state after add_server(config) and a successful connect(name)
McConnected(ty) ==
  /\ servers = [n \in Servers |-> ty]
  /\ sessions = [n \in Servers |-> "active"]
  /\ connections = [n \in Servers |-> 1]
  /\ health_check_tasks = [n \in Servers |-> Min(HealthIds)]
  /\ close_tasks = {}
  /\ handles = [h \in Handles |-> IF h = 1 THEN [type |-> ty, state |-> "open"]
                                  ELSE [type |-> "none", state |-> "unused"]]
  /\ inbox = [h \in Handles |-> <<>>]
  /\ pending = {}
  /\ task = [p \in Procs |->
              IF p \in Callers THEN IdleTask("user")
              ELSE IF p = Min(HealthIds)
              THEN [IdleTask("health") EXCEPT !.pc = "hstart"]
              ELSE IdleTask("health")]
  /\ probes = 0
  /\ config = [n \in Servers |-> ty]
  /\ hist = Other

CallSteps(P) ==
  \/ \E p \in P, k \in {"result", "error"}, ok \in BOOLEAN :
       RecvResponse(p, k, ok)
  \/ \E p \in P, k \in {"result", "error"}, ok \in BOOLEAN : RecvSSE(p, k, ok)
  \/ \E p \in P, ok \in BOOLEAN : RecvTimeout(p, ok)
  \/ \E p \in P, ok \in BOOLEAN : RecvClosed(p, ok)
  \/ \E p \in P, ok1, ok2 \in BOOLEAN : Backoff(p, ok1, ok2)
  \/ \E r \in pending : ServerRespond(r.h, r.id)

(***************************************************************************)
(* Life cycle of the connections: the public operations, the health loops  *)
(* while no call is in flight, and the loss of a transport.                *)
(***************************************************************************)
LifeNext ==
  \/ \E n \in Servers : add_server(n)
  \/ \E n \in Servers : remove_server(n)
  \/ \E n \in Servers : RunCloseTask(n)
  \/ \E n \in Servers, ok \in BOOLEAN : Connect(n, ok)
  \/ \E n \in Servers : disconnect(n)
  \/ \E t \in HealthIds : HealthStart(t)
  \/ \E t \in HealthIds, ok \in BOOLEAN : HealthDown(t, ok)
  \/ \E h \in Handles : PeerClose(h)

(***************************************************************************)
(* One caller of execute_tool on a client whose servers can be added and   *)
(* removed while the call runs.                                            *)
(***************************************************************************)
RetryNext ==
  \/ \E n \in Servers : add_server(n)
  \/ \E n \in Servers : remove_server(n)
  \/ \E n \in Servers : RunCloseTask(n)
  \/ \E n \in Servers, ok1, ok2 \in BOOLEAN : ExecStart(1, n, ok1, ok2)
  \/ \E t \in HealthIds : HealthStart(t)
  \/ \E t \in HealthIds, ok \in BOOLEAN : HealthDown(t, ok)
  \/ \E h \in Handles : PeerClose(h)
  \/ CallSteps({1})

(***************************************************************************)
(* The public operations of MCPClient in any order, around one caller of   *)
(* execute_tool, while the health loops have not been scheduled yet.       *)
(***************************************************************************)
ClientNext ==
  \/ \E n \in Servers : add_server(n)
  \/ \E n \in Servers : remove_server(n)
  \/ \E n \in Servers : RunCloseTask(n)
  \/ \E n \in Servers, ok \in BOOLEAN : Connect(n, ok)
  \/ \E n \in Servers : disconnect(n)
  \/ disconnect_all
  \/ \E n \in Servers, ok1, ok2 \in BOOLEAN : ExecStart(1, n, ok1, ok2)
  \/ \E h \in Handles : PeerClose(h)
  \/ CallSteps({1})

(***************************************************************************)
(* connect, execute_tool, disconnect and disconnect_all in any order on a  *)
(* client whose server stays configured, with the health loops.            *)
(***************************************************************************)
SessionNext ==
  \/ \E n \in Servers : add_server(n)
  \/ \E n \in Servers, ok \in BOOLEAN : Connect(n, ok)
  \/ \E n \in Servers : disconnect(n)
  \/ disconnect_all
  \/ \E n \in Servers, ok1, ok2 \in BOOLEAN : ExecStart(1, n, ok1, ok2)
  \/ \E t \in HealthIds : HealthStart(t)
  \/ \E t \in HealthIds, ok \in BOOLEAN : HealthDown(t, ok)
  \/ CallSteps({1})

(***************************************************************************)
(* connect and _close_connection of one name as concurrent coroutines,     *)
(* with the health loops and the peer.                                     *)
(***************************************************************************)
CloseNext ==
  \/ \E n \in Servers : add_server(n)
  \/ \E n \in Servers, ok \in BOOLEAN : Connect(n, ok)
  \/ \E n \in Servers : CloseBegin(n)
  \/ \E n \in Servers, h \in Handles : CloseEnd([name |-> n, handle |-> h])
  \/ \E t \in HealthIds : HealthStart(t)
  \/ \E t \in HealthIds, ok \in BOOLEAN : HealthDown(t, ok)
  \/ \E h \in Handles : PeerClose(h)

(***************************************************************************)
(* Concurrent callers of execute_tool on one established connection.       *)
(***************************************************************************)
CallsNext ==
  \/ \E p \in Callers, n \in Servers, ok1, ok2 \in BOOLEAN :
       ExecStart(p, n, ok1, ok2)
  \/ \E h \in Handles : PeerClose(h)
  \/ CallSteps(Callers)

(***************************************************************************)
(* The health loops of one established connection with their probes.       *)
(***************************************************************************)
PingNext ==
  \/ \E n \in Servers : disconnect(n)
  \/ \E t \in HealthIds : HealthStart(t)
  \/ \E t \in HealthIds, ok \in BOOLEAN : HealthPing(t, ok)
  \/ \E t \in HealthIds, ok \in BOOLEAN : HealthDown(t, ok)
  \/ \E h \in Handles : PeerClose(h)
  \/ CallSteps(HealthIds)

(***************************************************************************)
(* MCPStdioClient.                                                         *)
(***************************************************************************)
StdioCallers == 1..NumStdio
ToolOps == {"call_tool", "list_tools"}
StdioOps == {"initialize"} \cup ToolOps

\* op, pc and id of a coroutine; ready, running and afterClose tell what
\* held when it entered: the handshake was complete, the server was running,
\* close() had run; wrote tells whether it wrote its request, kind what
\* _read_response gave it
IdleCall ==
  [op |-> "none", pc |-> "idle", id |-> 0, out |-> "none", ready |-> FALSE,
   running |-> FALSE, afterClose |-> FALSE, wrote |-> FALSE, kind |-> "none"]

\* _send_request can write: the process exists and has not exited
Writable == process = "running"

\* _read_response while another coroutine is reading the same stream:
\* the RuntimeError of the stream is caught and None is returned
Reading(c) == \E d \in StdioCallers \ {c} : call[d].pc = "reading"

(***************************************************************************)
(* MCPStdioClient.start: spawns a server and stores it in self.process.    *)
(***************************************************************************)
start(ok) ==
  /\ process' = IF ok THEN "running" ELSE process
  /\ stdout' = IF ok THEN <<>> ELSE stdout
  /\ owed' = IF ok THEN {} ELSE owed
  /\ UNCHANGED <<initialized, request_id, closed, notified, call, ret, sent_ids,
                 mcVars, rlVars, brVars, waVars, closing>>

(***************************************************************************)
(* MCPStdioClient.close: terminates the process when there is one.         *)
(***************************************************************************)
close ==
  /\ process' = IF process = "none" THEN process ELSE "exited"
  /\ closed' = TRUE
  /\ UNCHANGED <<initialized, request_id, stdout, owed, notified, call, ret,
                 sent_ids, mcVars, rlVars, brVars, waVars, closing>>

\* the server process exits by itself
ProcessExit ==
  /\ process = "running"
  /\ process' = "exited"
  /\ UNCHANGED <<initialized, request_id, stdout, owed, closed, notified,
                 call, ret, sent_ids, mcVars, rlVars, brVars, waVars, closing>>

\* the server answers a request
StdioRespond(id) ==
  /\ process = "running"
  /\ id \in owed
  /\ Len(stdout) < MaxInbox
  /\ owed' = owed \ {id}
  /\ stdout' = Append(stdout, id)
  /\ UNCHANGED <<process, initialized, request_id, closed, notified, call, ret,
                 sent_ids, mcVars, rlVars, brVars, waVars, closing>>

\* the coroutine c returns or raises out
Return(c, me, out) ==
  /\ call' = [call EXCEPT ![c] = IdleCall]
  /\ ret' = [me EXCEPT !.pc = "done", !.out = out]

\* _next_id handing out the current value again instead of the next one
Begin_reusing_id(c, op) ==
  LET id == IF request_id = 0 THEN 1 ELSE request_id
      me == [IdleCall EXCEPT !.op = op, !.ready = notified,
                             !.running = Writable, !.afterClose = closed]
      failed == IF op = "initialize" THEN "false" ELSE "error"
  IN /\ call[c].pc = "idle"
     /\ IF op \in ToolOps /\ ~initialized
        THEN /\ Return(c, me, "precondition")
             /\ UNCHANGED <<request_id, owed, sent_ids>>
        ELSE /\ Len(sent_ids) < MaxId
             /\ request_id' = id
             /\ IF ~Writable
                THEN /\ Return(c, [me EXCEPT !.id = id], failed)
                     /\ UNCHANGED <<owed, sent_ids>>
                ELSE /\ owed' = owed \cup {id}
                     /\ sent_ids' = Append(sent_ids, id)
                     /\ IF Reading(c)
                        THEN Return(c, [me EXCEPT !.id = id, !.wrote = TRUE],
                                    failed)
                        ELSE /\ call' = [call EXCEPT ![c] =
                                  [me EXCEPT !.pc = "reading", !.id = id,
                                             !.wrote = TRUE]]
                             /\ UNCHANGED ret
     /\ UNCHANGED <<process, initialized, stdout, closed, notified,
                    mcVars, rlVars, brVars, waVars, closing>>

(***************************************************************************)
(* initialize, call_tool and list_tools up to the await of the response:   *)
(* the precondition, _next_id and _send_request.                           *)
(***************************************************************************)
Begin(c, op) ==
  LET id == request_id + 1
      me == [IdleCall EXCEPT !.op = op, !.ready = notified,
                             !.running = Writable, !.afterClose = closed]
      failed == IF op = "initialize" THEN "false" ELSE "error"
  IN /\ call[c].pc = "idle"
     /\ IF op \in ToolOps /\ ~initialized
        THEN /\ Return(c, me, "precondition")
             /\ UNCHANGED <<request_id, owed, sent_ids>>
        ELSE /\ request_id < MaxId
             /\ request_id' = id
             /\ IF ~Writable
                THEN /\ Return(c, [me EXCEPT !.id = id], failed)
                     /\ UNCHANGED <<owed, sent_ids>>
                ELSE /\ owed' = owed \cup {id}
                     /\ sent_ids' = Append(sent_ids, id)
                     /\ IF Reading(c)
                        THEN Return(c, [me EXCEPT !.id = id, !.wrote = TRUE],
                                    failed)
                        ELSE /\ call' = [call EXCEPT ![c] =
                                  [me EXCEPT !.pc = "reading", !.id = id,
                                             !.wrote = TRUE]]
                             /\ UNCHANGED ret
     /\ UNCHANGED <<process, initialized, stdout, closed, notified,
                    mcVars, rlVars, brVars, waVars, closing>>

(***************************************************************************)
(* The rest of initialize, call_tool and list_tools once _read_response    *)
(* has returned resp: 0 stands for None, otherwise the id of the response; *)
(* kind tells whether the response has an error field.                     *)
(***************************************************************************)
Finished_without_check(c, resp, kind) ==
  IF call[c].op = "initialize"
  THEN IF resp # 0 /\ Writable
       THEN /\ initialized' = TRUE
            /\ notified' = (notified \/ (resp = call[c].id /\ kind = "result"))
            /\ Return(c, [call[c] EXCEPT !.kind = kind], "true")
       ELSE /\ Return(c, [call[c] EXCEPT !.kind = kind], "false")
            /\ UNCHANGED <<initialized, notified>>
  ELSE /\ Return(c, [call[c] EXCEPT !.kind = kind],
                 IF resp # 0 /\ resp = call[c].id /\ kind = "result"
                 THEN "ok" ELSE "error")
       /\ UNCHANGED <<initialized, notified>>

Finished(c, resp, kind) ==
  LET ok == resp # 0 /\ resp = call[c].id /\ kind = "result"
  IN IF call[c].op = "initialize"
     THEN IF ok /\ Writable
          THEN /\ initialized' = TRUE
               /\ notified' = TRUE
               /\ Return(c, [call[c] EXCEPT !.kind = kind], "true")
          ELSE /\ Return(c, [call[c] EXCEPT !.kind = kind], "false")
               /\ UNCHANGED <<initialized, notified>>
     ELSE /\ Return(c, [call[c] EXCEPT !.kind = kind],
                    IF ok THEN "ok" ELSE "error")
          /\ UNCHANGED <<initialized, notified>>

\* the next line taken as the answer to the request whatever id it carries
ReadLine_any_id(c, kind) ==
  /\ call[c].pc = "reading"
  /\ stdout # <<>>
  /\ stdout' = Tail(stdout)
  /\ Finished(c, IF kind = "garbage" THEN 0 ELSE call[c].id, kind)
  /\ UNCHANGED <<process, request_id, owed, closed, sent_ids, mcVars, rlVars, brVars, waVars, closing>>

\* _read_response returns the next line of the server
ReadLine(c, kind) ==
  /\ call[c].pc = "reading"
  /\ stdout # <<>>
  /\ stdout' = Tail(stdout)
  /\ Finished(c, IF kind = "garbage" THEN 0 ELSE Head(stdout), kind)
  /\ UNCHANGED <<process, request_id, owed, closed, sent_ids, mcVars, rlVars, brVars, waVars, closing>>

\* a read without a timeout: with nothing to read the call goes on waiting
ReadNone_without_timeout(c) ==
  /\ call[c].pc = "reading"
  /\ stdout = <<>>
  /\ UNCHANGED <<initialized, notified, call, ret>>
  /\ UNCHANGED <<process, request_id, stdout, owed, closed, sent_ids, mcVars,
                 rlVars, brVars, waVars, closing>>

\* _read_response returns None: timeout, or end of file of a dead server
ReadNone(c) ==
  /\ call[c].pc = "reading"
  /\ stdout = <<>>
  /\ Finished(c, 0, "none")
  /\ UNCHANGED <<process, request_id, stdout, owed, closed, sent_ids, mcVars,
                 rlVars, brVars, waVars, closing>>

ScInit ==
  /\ process = "none"
  /\ initialized = FALSE
  /\ request_id = 0
  /\ stdout = <<>>
  /\ owed = {}
  /\ closed = FALSE
  /\ notified = FALSE
  /\ call = [c \in StdioCallers |-> IdleCall]
  /\ ret = IdleCall
  /\ sent_ids = <<>>

ScNext ==
  \/ \E ok \in BOOLEAN : start(ok)
  \/ close
  \/ ProcessExit
  \/ \E id \in 1..MaxId : StdioRespond(id)
  \/ \E c \in StdioCallers, op \in StdioOps : Begin(c, op)
  \/ \E c \in StdioCallers, k \in {"result", "error", "garbage"} : ReadLine(c, k)
  \/ \E c \in StdioCallers : ReadNone(c)

(***************************************************************************)
(* WhatsAppMCPClient._enforce_rate_limit (src/whatsapp_mcp_client.py).     *)
(* Time is counted in whole seconds.  The coroutine holds _rate_limit_lock *)
(* from its entry to its return, its sleeps included.                      *)
(***************************************************************************)
RlCallers == 1..NumLimited
OpTypes == {"messages", "chats", "other"}

IdleLimited ==
  [pc |-> "idle", op |-> "none", now |-> 0, wake |-> 0, need |-> 0]

\* max_per_minute of an operation type
PerMinute(op) ==
  IF op = "messages" THEN messages_per_minute
  ELSE IF op = "chats" THEN chats_per_minute
  ELSE default_per_minute

\* [ts for ts in self._request_timestamps if now - ts < 60]
Prune(w, now) == SelectSeq(w, LAMBDA e : now - e.ts < Minute)

\* [ts for ts in self._request_timestamps if now - ts < 1]
Recent(w, now) == SelectSeq(w, LAMBDA e : now - e.ts < Second)

\* The time before which a call of type op that enters with the window w
\* may not return under the per-minute ceiling: when w holds at least
\* PerMinute(op) admissions of that type, the time at which the oldest of
\* the latest PerMinute(op) of them is one minute old.
Need(w, op) ==
  LET mine == SelectSeq(w, LAMBDA e : e.op = op)
  IN IF Len(mine) >= PerMinute(op)
     THEN mine[Len(mine) - PerMinute(op) + 1].ts + Minute
     ELSE 0

\* self._request_timestamps.append(now), the release of the lock, the return
Admit(c, me, w) ==
  /\ _request_timestamps' = Append(w, [ts |-> me.now, op |-> me.op])
  /\ lock_owner' = 0
  /\ limited' = [limited EXCEPT ![c] = IdleLimited]
  /\ admitted' = [op |-> me.op, now |-> me.now, at |-> clock,
                  len |-> Len(w) + 1, need |-> me.need]
  /\ same_second' = IF admitted.op # "none" /\ admitted.at = clock
                    THEN same_second + 1 ELSE 1

\* the per-second check, made with the now of the entry
SecondCheck(c, me, w) ==
  LET recent_requests == Recent(w, me.now)
      sleep_time == IF recent_requests = <<>> THEN 0
                    ELSE Second - (me.now - recent_requests[1].ts)
  IN IF Len(recent_requests) >= requests_per_second /\ sleep_time > 0
     THEN /\ _request_timestamps' = w
          /\ limited' = [limited EXCEPT ![c] =
                [me EXCEPT !.pc = "sleepSecond", !.wake = clock + sleep_time]]
          /\ lock_owner' = c
          /\ UNCHANGED <<admitted, same_second>>
     ELSE Admit(c, me, w)

\* the body of _enforce_rate_limit from the acquired lock to its first sleep
\* or to its return
Enter(c, op) ==
  LET w == Prune(_request_timestamps, clock)
      me == [IdleLimited EXCEPT !.op = op, !.now = clock, !.need = Need(w, op)]
      sleep_time == IF w = <<>> THEN 0 ELSE Minute - (clock - w[1].ts)
  IN IF Len(w) >= PerMinute(op) /\ sleep_time > 0
     THEN /\ _request_timestamps' = w
          /\ limited' = [limited EXCEPT ![c] =
                [me EXCEPT !.pc = "sleepMinute", !.wake = clock + sleep_time]]
          /\ lock_owner' = c
          /\ UNCHANGED <<admitted, same_second>>
     ELSE SecondCheck(c, me, w)

\* _enforce_rate_limit without its lock
RlCall_without_lock(c, op) ==
  /\ limited[c].pc = "idle"
  /\ Len(_request_timestamps) + Cardinality({d \in RlCallers :
        limited[d].pc # "idle"}) < MaxWindow
  /\ Enter(c, op)
  /\ UNCHANGED <<clock, lock_waiters, mcVars, scVars, brVars, waVars, closing>>

(***************************************************************************)
(* A coroutine calls _enforce_rate_limit(op): it takes the free lock and   *)
(* runs on, or it queues behind the holder and the earlier waiters.        *)
(***************************************************************************)
RlCall(c, op) ==
  /\ limited[c].pc = "idle"
  /\ Len(_request_timestamps) + Cardinality({d \in RlCallers :
        limited[d].pc # "idle"}) < MaxWindow
  /\ IF lock_owner = 0 /\ lock_waiters = <<>>
     THEN Enter(c, op) /\ UNCHANGED lock_waiters
     ELSE /\ lock_waiters' = Append(lock_waiters, c)
          /\ limited' = [limited EXCEPT ![c] =
                [IdleLimited EXCEPT !.pc = "queued", !.op = op]]
          /\ UNCHANGED <<_request_timestamps, lock_owner, admitted,
                         same_second>>
  /\ UNCHANGED <<clock, mcVars, scVars, brVars, waVars, closing>>

\* the first waiter of the released lock acquires it and runs on
RlResume(c) ==
  /\ lock_owner = 0
  /\ lock_waiters # <<>>
  /\ Head(lock_waiters) = c
  /\ lock_waiters' = Tail(lock_waiters)
  /\ Enter(c, limited[c].op)
  /\ UNCHANGED <<clock, mcVars, scVars, brVars, waVars, closing>>

\* asyncio.sleep returns, not before the time asked for
RlWake(c) ==
  /\ limited[c].pc \in {"sleepMinute", "sleepSecond"}
  /\ clock >= limited[c].wake
  /\ IF limited[c].pc = "sleepMinute"
     THEN SecondCheck(c, limited[c], _request_timestamps)
     ELSE Admit(c, limited[c], _request_timestamps)
  /\ UNCHANGED <<clock, lock_waiters, mcVars, scVars, brVars, waVars, closing>>

\* one second passes
Tick ==
  /\ clock < MaxTick
  /\ clock' = clock + 1
  /\ UNCHANGED <<_request_timestamps, lock_owner, lock_waiters, limited,
                 admitted, same_second, mcVars, scVars, brVars, waVars, closing>>

\* time passes until the sleep of the lock's holder is over
Elapse ==
  /\ lock_owner # 0
  /\ limited[lock_owner].wake > clock
  /\ limited[lock_owner].wake <= Horizon
  /\ clock' = limited[lock_owner].wake
  /\ UNCHANGED <<_request_timestamps, lock_owner, lock_waiters, limited,
                 admitted, same_second, mcVars, scVars, brVars, waVars, closing>>

RlInit ==
  /\ clock = 0
  /\ _request_timestamps = <<>>
  /\ lock_owner = 0
  /\ lock_waiters = <<>>
  /\ limited = [c \in RlCallers |-> IdleLimited]
  /\ admitted = [op |-> "none", now |-> 0, at |-> 0, len |-> 0, need |-> 0]
  /\ same_second = 0

RlNext ==
  \/ \E c \in RlCallers, op \in OpTypes : RlCall(c, op)
  \/ \E c \in RlCallers : RlResume(c)
  \/ \E c \in RlCallers : RlWake(c)
  \/ Tick
  \/ Elapse

(***************************************************************************)
(* sync_wrapper and use_mcp_tool_sync: both are the same three branches.   *)
(* The calling thread is one sequential thread: while it is inside the     *)
(* wrapper it runs nothing else.                                           *)
(***************************************************************************)
Threads == {"caller", "worker"}
Outcomes == {"ok", "RuntimeError", "Exception"}

NewCoro == [left |-> CoroSteps, out |-> "none"]
NoReturn == [out |-> "none", by |-> "none"]

\* the wrapper is called: by a callback of the running loop, or by plain
\* synchronous code of a thread whose loop is not running or that has none
sync_wrapper ==
  /\ wrapper = "out"
  /\ coro' = NewCoro
  /\ served' = 0
  /\ returned' = NoReturn
  /\ IF loop = "running"
     THEN \* run_async_in_thread: executor.submit, then future.result()
          /\ wrapper' = "result"
          /\ worker' = "submitted"
          /\ UNCHANGED <<loop, running>>
     ELSE IF loop = "stopped"
     THEN \* loop.run_until_complete on the calling thread
          /\ wrapper' = "driving"
          /\ loop' = "running"
          /\ running' = [running EXCEPT !["caller"] = @ + 1]
          /\ UNCHANGED worker
     ELSE \* RuntimeError of get_event_loop: asyncio.run on the calling thread
          /\ wrapper' = "asyncio_run"
          /\ running' = [running EXCEPT !["caller"] = @ + 1]
          /\ UNCHANGED <<loop, worker>>
  /\ UNCHANGED <<ready, mcVars, scVars, rlVars, waVars, closing>>

\* the worker thread runs run_in_new_thread: a new loop of its own
run_in_new_thread ==
  /\ worker = "submitted"
  /\ worker' = "looping"
  /\ running' = [running EXCEPT !["worker"] = @ + 1]
  /\ UNCHANGED <<loop, wrapper, coro, ready, served, returned,
                 mcVars, scVars, rlVars, waVars, closing>>

\* the loop that drives the coroutine runs it to its next await
CoroStep ==
  /\ worker = "looping" \/ wrapper \in {"driving", "asyncio_run"}
  /\ coro.left > 0
  /\ coro' = [coro EXCEPT !.left = @ - 1]
  /\ UNCHANGED <<loop, running, wrapper, worker, ready, served, returned,
                 mcVars, scVars, rlVars, waVars, closing>>

\* the coroutine returns or raises: run_until_complete or asyncio.run ends
CoroDone(out) ==
  /\ coro.left = 0
  /\ coro.out = "none"
  /\ IF worker = "looping"
     THEN \* loop.close() in the worker; the future holds the outcome
          /\ worker' = "finished"
          /\ running' = [running EXCEPT !["worker"] = @ - 1]
          /\ coro' = [coro EXCEPT !.out = out]
          /\ UNCHANGED <<loop, wrapper, returned>>
     ELSE IF wrapper = "driving"
     THEN /\ loop' = "stopped"
          /\ IF out = "RuntimeError"
             THEN \* caught by the wrapper's except RuntimeError: asyncio.run
                  \* of a second coroutine of the same function
                  /\ wrapper' = "asyncio_run"
                  /\ coro' = NewCoro
                  /\ UNCHANGED <<running, returned>>
             ELSE /\ wrapper' = "out"
                  /\ running' = [running EXCEPT !["caller"] = @ - 1]
                  /\ coro' = [coro EXCEPT !.out = out]
                  /\ returned' = [out |-> out, by |-> "caller"]
          /\ UNCHANGED worker
     ELSE /\ wrapper = "asyncio_run"
          /\ wrapper' = "out"
          /\ running' = [running EXCEPT !["caller"] = @ - 1]
          /\ coro' = [coro EXCEPT !.out = out]
          /\ returned' = [out |-> out, by |-> "caller"]
          /\ UNCHANGED <<loop, worker>>
  /\ UNCHANGED <<ready, served, mcVars, scVars, rlVars, waVars, closing>>

\* future.result() returns in the calling thread.  A RuntimeError of the
\* coroutine is caught by the wrapper, whose asyncio.run then raises
\* RuntimeError itself because a loop is running on the thread.
future_result ==
  /\ wrapper = "result"
  /\ worker = "finished"
  /\ wrapper' = "out"
  /\ worker' = "none"
  /\ returned' = [out |-> coro.out, by |-> "worker"]
  /\ UNCHANGED <<loop, running, coro, ready, served, mcVars, scVars, rlVars, waVars, closing>>

(***************************************************************************)
(* The program around the bridge: it creates, runs and stops the event     *)
(* loop of the calling thread, and callbacks become ready on that loop.    *)
(***************************************************************************)
LoopCreate ==
  /\ wrapper = "out"
  /\ loop = "none"
  /\ loop' = "stopped"
  /\ UNCHANGED <<running, wrapper, worker, coro, ready, served, returned,
                 mcVars, scVars, rlVars, waVars, closing>>

LoopStart ==
  /\ wrapper = "out"
  /\ loop = "stopped"
  /\ loop' = "running"
  /\ running' = [running EXCEPT !["caller"] = @ + 1]
  /\ UNCHANGED <<wrapper, worker, coro, ready, served, returned,
                 mcVars, scVars, rlVars, waVars, closing>>

LoopStop ==
  /\ wrapper = "out"
  /\ loop = "running"
  /\ loop' = "stopped"
  /\ running' = [running EXCEPT !["caller"] = @ - 1]
  /\ UNCHANGED <<wrapper, worker, coro, ready, served, returned,
                 mcVars, scVars, rlVars, waVars, closing>>

CallbackReady ==
  /\ loop # "none"
  /\ ready + served < MaxReady
  /\ ready' = ready + 1
  /\ UNCHANGED <<loop, running, wrapper, worker, coro, served, returned,
                 mcVars, scVars, rlVars, waVars, closing>>

\* the running loop of the calling thread runs a ready callback; it cannot
\* while its thread is inside the callback that waits in future.result()
RunCallback ==
  /\ loop = "running"
  /\ wrapper # "result"
  /\ ready > 0
  /\ ready' = ready - 1
  /\ served' = IF wrapper = "out" THEN served ELSE served + 1
  /\ UNCHANGED <<loop, running, wrapper, worker, coro, returned,
                 mcVars, scVars, rlVars, waVars, closing>>

BrInit ==
  /\ loop = "none"
  /\ running = [th \in Threads |-> 0]
  /\ wrapper = "out"
  /\ worker = "none"
  /\ coro = [left |-> 0, out |-> "none"]
  /\ ready = 0
  /\ served = 0
  /\ returned = NoReturn

BrNext ==
  \/ sync_wrapper
  \/ run_in_new_thread
  \/ CoroStep
  \/ \E out \in Outcomes : CoroDone(out)
  \/ future_result
  \/ LoopCreate
  \/ LoopStart
  \/ LoopStop
  \/ CallbackReady
  \/ RunCallback

(***************************************************************************)
(* WhatsAppMCPClient.initialize, with SyncWhatsAppMCPClient.initialize     *)
(* storing its result: add_server replaces the configuration of the name,  *)
(* then connect; every exception becomes False.                            *)
(***************************************************************************)
WaServer == "wa"

initialize(ok) ==
  LET n == WaServer
      r == connect([CS EXCEPT !.servers[n] = config[n]], n, ok)
  IN /\ Install(Recycle(r.s))
     /\ _initialized' = (r.ret = "true")
     /\ hist' = [op |-> IF r.ret = "true" THEN "initialize_true"
                        ELSE "initialize_false", name |-> n]
     /\ UNCHANGED <<probes, config, session, wa_op, closing,
                    scVars, rlVars, brVars>>

(***************************************************************************)
(* WhatsAppMCPClient.authenticate up to the first await of a response      *)
(* (its _enforce_rate_limit changes the limiter only).                     *)
(***************************************************************************)
authenticate(p, ok1, ok2) ==
  /\ p \in Callers
  /\ task[p].pc = "idle"
  /\ wa_op[p] = "none"
  /\ wa_op' = [wa_op EXCEPT ![p] = "authenticate"]
  /\ Install(Recycle(execute_tool([CS EXCEPT !.task[p].name = WaServer],
                                  p, ok1, ok2)))
  /\ hist' = Other
  /\ UNCHANGED <<probes, config, session, _initialized, closing,
                 scVars, rlVars, brVars>>

(***************************************************************************)
(* WhatsAppMCPClient.disconnect up to its first await of a response: the   *)
(* remote "disconnect" tool is called only when the session is             *)
(* authenticated; otherwise the method runs to its end.                    *)
(***************************************************************************)
Disconnected == [is_authenticated |-> FALSE, connection_status |-> "disconnected"]

wa_disconnect(p, ok1, ok2) ==
  /\ p \in Callers
  /\ task[p].pc = "idle"
  /\ wa_op[p] = "none"
  /\ IF session.is_authenticated
     THEN /\ wa_op' = [wa_op EXCEPT ![p] = "disconnect"]
          /\ Install(Recycle(execute_tool(
               [CS EXCEPT !.task[p].name = WaServer], p, ok1, ok2)))
          /\ hist' = Other
          /\ UNCHANGED session
     ELSE /\ Install(Recycle(_close_connection(CS, WaServer)))
          /\ session' = Disconnected
          /\ hist' = [op |-> "wa_disconnect", name |-> WaServer]
          /\ UNCHANGED wa_op
  /\ UNCHANGED <<probes, config, _initialized, closing, scVars, rlVars, brVars>>

(***************************************************************************)
(* The rest of authenticate and of disconnect once execute_tool has        *)
(* returned or raised; status is what the result of "authenticate" says.   *)
(***************************************************************************)
AuthStatus == {"authenticated", "qr_code", "other"}

WaReturn(p, status) ==
  LET idle == [CS EXCEPT !.task[p] = IdleTask("user")]
  IN /\ task[p].pc = "done"
     /\ wa_op[p] # "none"
     /\ wa_op' = [wa_op EXCEPT ![p] = "none"]
     /\ IF wa_op[p] = "authenticate"
        THEN /\ Install(Recycle(idle))
             /\ session' =
                  IF task[p].out # "ok"
                  THEN [session EXCEPT !.connection_status = "error"]
                  ELSE IF status = "authenticated"
                  THEN [is_authenticated |-> TRUE,
                        connection_status |-> "connected"]
                  ELSE IF status = "qr_code"
                  THEN [session EXCEPT !.connection_status = "awaiting_qr"]
                  ELSE session
             /\ hist' = Other
        ELSE /\ IF task[p].out = "ok"
                THEN /\ Install(Recycle(_close_connection(idle, WaServer)))
                     /\ session' = Disconnected
                ELSE \* the except branch of disconnect only logs
                     /\ Install(Recycle(idle))
                     /\ UNCHANGED session
             /\ hist' = [op |-> "wa_disconnect", name |-> WaServer]
     /\ UNCHANGED <<probes, config, _initialized, closing, scVars, rlVars, brVars>>

WaInit ==
  /\ session = Disconnected
  /\ wa_op = [p \in Callers |-> "none"]
  /\ _initialized = FALSE
  /\ closing = {}

(***************************************************************************)
(* One user of a WhatsAppMCPClient: initialize, authenticate, disconnect,  *)
(* while the health loops have not been scheduled yet and the transports   *)
(* stay up.                                                                *)
(***************************************************************************)
WaNext ==
  \/ \E ok \in BOOLEAN : initialize(ok)
  \/ \E ok1, ok2 \in BOOLEAN : authenticate(1, ok1, ok2)
  \/ \E ok1, ok2 \in BOOLEAN : wa_disconnect(1, ok1, ok2)
  \/ \E st \in AuthStatus : WaReturn(1, st)
  \/ \E k \in {"result", "error"}, ok \in BOOLEAN : RecvResponse(1, k, ok)
  \/ \E k \in {"result", "error"}, ok \in BOOLEAN : RecvSSE(1, k, ok)
  \/ \E ok \in BOOLEAN : RecvTimeout(1, ok)
  \/ \E ok1, ok2 \in BOOLEAN : Backoff(1, ok1, ok2)
  \/ \E r \in pending : ServerRespond(r.h, r.id)

(***************************************************************************)
(* One caller of execute_tool on an MCPClient whose stdio connection is    *)
(* closed while the call runs, and one caller of an MCPStdioClient         *)
(* that is closed while the call runs.  The two clients share no state;    *)
(* a run exercises one of them.                                            *)
(***************************************************************************)
McUnused == \A n \in Servers : servers[n] = "none"
ScUnused == process = "none" /\ request_id = 0 /\ ~closed

McWaitNext ==
  \/ \E n \in Servers : add_server(n)
  \/ \E n \in Servers, ok1, ok2 \in BOOLEAN : ExecStart(1, n, ok1, ok2)
  \/ \E n \in Servers : disconnect(n)
  \/ \E k \in {"result", "error"}, ok \in BOOLEAN : RecvResponse(1, k, ok)
  \/ \E ok \in BOOLEAN : RecvTimeout(1, ok)
  \/ \E ok \in BOOLEAN : RecvClosed(1, ok)
  \/ \E ok1, ok2 \in BOOLEAN : Backoff(1, ok1, ok2)
  \/ \E r \in pending : ServerRespond(r.h, r.id)

ScWaitNext ==
  \/ start(TRUE)
  \/ close
  \/ \E id \in 1..MaxId : StdioRespond(id)
  \/ \E op \in {"initialize", "call_tool"} : Begin(1, op)
  \/ \E k \in {"result", "error"} : ReadLine(1, k)
  \/ ReadNone(1)

WaitNext ==
  \/ ScUnused /\ McWaitNext
  \/ McUnused /\ ScWaitNext

vars == <<mcVars, scVars, rlVars, brVars, waVars, closing>>

\* the state after the construction of the three clients, with no
\* event loop yet on the thread that will call the sync bridge
Init == McInit /\ ScInit /\ RlInit /\ BrInit /\ WaInit

\* the same with the server of the MCPClient added and connected
InitConnected ==
  /\ \E ty \in ConnTypes : McConnected(ty)
  /\ ScInit /\ RlInit /\ BrInit /\ WaInit

\* the initial state of the runs that leave the MCPClient alone
InitUnused == Init /\ config = [n \in Servers |-> "stdio"]

\* the initial state of the runs whose MCPClient is configured for stdio
InitStdio == Init /\ config = [n \in Servers |-> "stdio"]

\* asyncio.wait_for ends a read when its timeout expires
ReadEnds ==
  /\ WF_vars(\E ok \in BOOLEAN : RecvTimeout(1, ok))
  /\ WF_vars(ReadNone(1) \/ \E k \in {"result", "error"} : ReadLine(1, k))

Spec == Init /\ [][LifeNext]_vars
SpecRetry == Init /\ [][RetryNext]_vars
SpecCalls == InitConnected /\ [][CallsNext]_vars
SpecPing == InitConnected /\ [][PingNext]_vars
SpecClient == Init /\ [][ClientNext]_vars
SpecSession == Init /\ [][SessionNext]_vars
SpecStdio == InitUnused /\ [][ScNext]_vars
SpecLimiter == InitUnused /\ [][RlNext]_vars
SpecBridge == InitUnused /\ [][BrNext]_vars
SpecWhatsApp == Init /\ [][WaNext]_vars
SpecClose == Init /\ [][CloseNext]_vars
SpecWait == InitStdio /\ [][WaitNext]_vars /\ ReadEnds

(***************************************************************************)
(* MCPClient.is_connected.                                                 *)
(***************************************************************************)
is_connected(n) == connections[n] # 0 /\ sessions[n] = "active"

Done(p) == task[p].kind = "user" /\ task[p].pc = "done"

(***************************************************************************)
(* C1: every caller of execute_tool that returns a result returns the      *)
(* result of the response whose id is the id of its own request.           *)
(***************************************************************************)
C1_PairedById ==
  \A p \in Callers :
    Done(p) /\ task[p].out = "ok" => task[p].result = task[p].reqid

(***************************************************************************)
(* C2: every open transport handle is the one connections[name] refers    *)
(* to: connect closes the handle it replaces.                              *)
(***************************************************************************)
C2_NoLeakedHandle ==
  \A h \in Handles :
    handles[h].state = "open" => \E n \in Servers : connections[n] = h

(***************************************************************************)
(* C3: after a successful connect(name) directly followed by               *)
(* disconnect(name), name has no entry in connections, its session is      *)
(* inactive, is_connected(name) is false and no health task is registered. *)
(***************************************************************************)
C3_ConnectDisconnect ==
  \A n \in Servers :
    hist = [op |-> "connect_ok_disconnect", name |-> n] =>
      /\ connections[n] = 0
      /\ sessions[n] = "inactive"
      /\ ~is_connected(n)
      /\ health_check_tasks[n] = 0

C3_Witness ==
  \E n \in Servers :
    /\ hist = [op |-> "connect_ok_disconnect", name |-> n]
    /\ \E h \in Handles : handles[h].type = config[n]

(***************************************************************************)
(* C4: while every failure of a call of execute_tool is an                 *)
(* MCPConnectionError, the retry loop has reconnected once per failed      *)
(* attempt, after the backoff sleep of that attempt and before the next    *)
(* attempt is sent; when attempt k+1 succeeds the call returns its result  *)
(* after exactly k reconnects.                                             *)
(***************************************************************************)
C4_RetryReconnects ==
  \A p \in Callers :
    task[p].kind = "user" /\ task[p].otherFails = 0 =>
      /\ task[p].pc = "wait" =>
           /\ task[p].connFails = task[p].attempts - 1
           /\ task[p].sleeps = task[p].connFails
           /\ task[p].reconnects = task[p].connFails
      /\ task[p].pc = "backoff" =>
           /\ task[p].connFails = task[p].attempts
           /\ task[p].sleeps = task[p].connFails - 1
           /\ task[p].reconnects = task[p].connFails - 1
      /\ Done(p) /\ task[p].out = "ok" =>
           /\ task[p].connFails = task[p].attempts - 1
           /\ task[p].connFails < max_retries
           /\ task[p].sleeps = task[p].connFails
           /\ task[p].reconnects = task[p].connFails
           /\ task[p].result # 0

C4_Witness ==
  \E p \in Callers :
    /\ Done(p) /\ task[p].out = "ok"
    /\ task[p].otherFails = 0
    /\ task[p].connFails = max_retries - 1
    /\ task[p].reconnects = max_retries - 1

(***************************************************************************)
(* C5: a call of execute_tool whose attempts all failed made exactly       *)
(* max_retries attempts and raised MCPToolError.                           *)
(***************************************************************************)
C5_ExhaustedRetries ==
  \A p \in Callers :
    Done(p) /\ task[p].attempts >= 1 /\ task[p].out # "ok" =>
      task[p].attempts = max_retries /\ task[p].out = "MCPToolError"

(***************************************************************************)
(* C6: call_tool and list_tools write nothing and fail with the            *)
(* precondition error unless the initialize response was received without  *)
(* an error field and notifications/initialized was sent; once it was      *)
(* sent, the call passes the precondition and is written to the pipe of    *)
(* the running server.                                                     *)
(***************************************************************************)
C6_HandshakeGate ==
  /\ initialized => notified
  /\ \A c \in StdioCallers :
       call[c].op \in ToolOps => call[c].ready /\ call[c].wrote
  /\ ret.op \in ToolOps =>
       /\ ~ret.ready => ret.out = "precondition" /\ ~ret.wrote
       /\ ret.ready => ret.out # "precondition"
       /\ ret.ready /\ ret.running => ret.wrote

\* a call_tool or list_tools made after the handshake was sent and answered
C6_Witness ==
  /\ ret.op \in ToolOps
  /\ ret.ready
  /\ ret.wrote
  /\ ret.out = "ok"
  /\ ~closed

(***************************************************************************)
(* C7: Closed is terminal: once close() has run, a call_tool or list_tools *)
(* on the same client fails with the precondition error and writes no      *)
(* request, whatever start and initialize did in between.                  *)
(***************************************************************************)
C7_ClosedIsTerminal ==
  /\ \A c \in StdioCallers :
       call[c].op \in ToolOps => ~call[c].afterClose
  /\ ret.op \in ToolOps /\ ret.afterClose =>
       ret.out = "precondition" /\ ~ret.wrote

(***************************************************************************)
(* C8: after every return of _enforce_rate_limit for an operation type     *)
(* with per-minute ceiling C, _request_timestamps holds at most C entries. *)
(***************************************************************************)
C8_WindowWithinCeiling ==
  admitted.op # "none" => admitted.len <= PerMinute(admitted.op)

(***************************************************************************)
(* C9: a call that enters while C admissions of its operation type are     *)
(* less than 60 seconds old does not return before the oldest of them is   *)
(* 60 seconds old.                                                         *)
(***************************************************************************)
C9_WaitsForOldest ==
  admitted.op # "none" /\ admitted.need > 0 => admitted.at >= admitted.need

(***************************************************************************)
(* C10: the number of calls of _enforce_rate_limit that return within one  *)
(* second never exceeds requests_per_second.                               *)
(***************************************************************************)
C10_PerSecondCeiling ==
  same_second <= requests_per_second

(***************************************************************************)
(* C11: the prune, the two checks and the append of _enforce_rate_limit    *)
(* are one critical section: a coroutine that is between its prune and its *)
(* append, asleep or not, holds the lock, the other callers are outside or *)
(* queued, and no step of another caller changes _request_timestamps while *)
(* it is there.                                                            *)
(***************************************************************************)
C11_CriticalSection ==
  [][/\ \A c \in RlCallers :
          limited'[c].pc \in {"sleepMinute", "sleepSecond"} => lock_owner' = c
     /\ \A c \in RlCallers :
          /\ limited[c].pc \in {"sleepMinute", "sleepSecond"}
          /\ _request_timestamps' # _request_timestamps
          => /\ limited'[c].pc = "idle"
             /\ \A d \in RlCallers \ {c} : limited'[d] = limited[d]]_vars

\* a caller asleep inside the critical section while another caller waits
C11_Witness ==
  \E c, d \in RlCallers :
    /\ limited[c].pc \in {"sleepMinute", "sleepSecond"}
    /\ lock_owner = c
    /\ limited[d].pc = "queued"
    /\ _request_timestamps # <<>>

(***************************************************************************)
(* C12: every call of execute_tool returns a result or raises an error of  *)
(* the MCPClientError family, MCPConnectionError or MCPToolError.          *)
(***************************************************************************)
C12_OnlyClientErrors ==
  \A p \in Callers :
    Done(p) => task[p].out \in {"ok", "MCPConnectionError", "MCPToolError"}

(***************************************************************************)
(* C13: a call of execute_tool on a name that has no entry in connections  *)
(* fails at once: it opens no transport, creates no session, sends no      *)
(* request and makes no attempt.                                           *)
(***************************************************************************)
C13_NoConnectionNoCall ==
  [][\A p \in Callers :
       /\ task[p].pc = "idle"
       /\ task'[p].pc # "idle"
       /\ connections[task'[p].name] = 0
       => /\ task'[p].pc = "done"
          /\ task'[p].out = "MCPConnectionError"
          /\ task'[p].attempts = 0
          /\ handles' = handles
          /\ connections' = connections
          /\ sessions' = sessions
          /\ pending' = pending]_vars

(***************************************************************************)
(* C14: a session appears only in a step in which connect installs a new   *)
(* connection; closing marks it inactive and never removes it; and a       *)
(* session is active only while its name has an entry in connections.      *)
(***************************************************************************)
C14_SessionsKept ==
  [][\A n \in Servers :
       /\ sessions[n] # "none" => sessions'[n] # "none"
       /\ sessions[n] # "active" /\ sessions'[n] = "active"
          => connections'[n] # 0 /\ connections'[n] # connections[n]
       /\ sessions'[n] = "active" => connections'[n] # 0]_vars

\* after disconnect_all the once connected name still has its session,
\* inactive, and no connection
C14_Witness ==
  \E n \in Servers :
    /\ hist = [op |-> "disconnect_all", name |-> n]
    /\ sessions[n] = "inactive"
    /\ connections[n] = 0

(***************************************************************************)
(* C15: when disconnect_all has returned, connections is empty, no session *)
(* is active and no health loop is registered or still running, also when  *)
(* closing a transport raised.                                             *)
(***************************************************************************)
C15_AllClosed ==
  hist.op = "disconnect_all" =>
    /\ \A n \in Servers :
         /\ connections[n] = 0
         /\ sessions[n] # "active"
         /\ health_check_tasks[n] = 0
    /\ \A t \in HealthIds : task[t].pc \in {"unused", "hdone", "cancelled"}

(***************************************************************************)
(* C16: once disconnect(name) has returned and left no entry in            *)
(* connections, the entry comes back only by a connect of the caller:      *)
(* no health loop of the name reconnects.  (Under Spec the caller's        *)
(* connect is the only public operation that opens a connection.)          *)
(***************************************************************************)
C16_NoReconnectAfterDisconnect ==
  [][\A n \in Servers :
       /\ hist = [op |-> "connect_ok_disconnect", name |-> n]
       /\ connections[n] = 0
       /\ connections'[n] # 0
       => hist' = [op |-> "connect_ok", name |-> n]]_vars

(***************************************************************************)
(* C17: when the wait of a caller's attempt on the current connection ends *)
(* without a response having been read, the attempt fails with the         *)
(* timeout's MCPToolError and nothing of the connection changes: the same  *)
(* handle, still open, the session as it was, the same health loop; and    *)
(* the retry that follows such a failure does not reconnect.               *)
(***************************************************************************)
C17_TimeoutKeepsConnection ==
  [][\A p \in Callers :
       LET n == task[p].name
           h == task[p].handle
       IN /\ /\ Waiting(p)
             /\ connections[n] = h
             /\ handles[h].state = "open"
             /\ inbox'[h] = inbox[h]
             /\ task'[p].pc # "wait"
             /\ task'[p].out # "ok"
             => /\ task'[p].exc = "MCPToolError"
                /\ task'[p].pc \in {"backoff", "done"}
                /\ task'[p].pc = "done" => task'[p].out = "MCPToolError"
                /\ connections' = connections
                /\ handles' = handles
                /\ sessions' = sessions
                /\ health_check_tasks' = health_check_tasks
                /\ task'[p].reconnects = task[p].reconnects
          /\ /\ task[p].pc = "backoff"
             /\ task[p].exc = "MCPToolError"
             /\ task'[p].pc # "backoff"
             => /\ task'[p].reconnects = task[p].reconnects
                /\ connections' = connections
                /\ sessions' = sessions]_vars

\* an attempt has timed out (its request is still unanswered) and the
\* caller is in its backoff sleep on the same, active connection
C17_Witness ==
  \E p \in Callers :
    /\ task[p].pc = "backoff"
    /\ task[p].exc = "MCPToolError"
    /\ [h |-> task[p].handle, id |-> task[p].reqid] \in pending
    /\ connections[task[p].name] = task[p].handle
    /\ handles[task[p].handle].state = "open"
    /\ is_connected(task[p].name)

(***************************************************************************)
(* C18: when the line a waiting call reads carries an id other than the    *)
(* id of its request, the line is dropped and the call goes on waiting     *)
(* for its own response.                                                   *)
(***************************************************************************)
C18_UnmatchedDiscarded ==
  [][\A c \in StdioCallers :
       /\ call[c].pc = "reading"
       /\ stdout # <<>>
       /\ Head(stdout) # call[c].id
       /\ stdout' = Tail(stdout)
       => call'[c] = call[c]]_vars

(***************************************************************************)
(* C19, as stated: the requests one MCPStdioClient writes carry the ids    *)
(* 1, then strictly increasing ones.                                       *)
(***************************************************************************)
C19_IdsFromOne ==
  /\ sent_ids # <<>> => sent_ids[1] = 1
  /\ \A i, j \in 1..Len(sent_ids) : i < j => sent_ids[i] < sent_ids[j]

(***************************************************************************)
(* C19, amended: _next_id hands out 1, 2, 3, ... in the order of the       *)
(* calls; the requests written carry ids that strictly increase in the     *)
(* order written, so no two are equal, but an id is used up also by a      *)
(* request whose write fails, so the first id written need not be 1; the   *)
(* step of initialize that sends notifications/initialized takes no id.    *)
(***************************************************************************)
C19_IdsIncrease ==
  [][/\ request_id' \in {request_id, request_id + 1}
     /\ \A i \in 1..Len(sent_ids') : sent_ids'[i] \in 1..request_id'
     /\ \A i, j \in 1..Len(sent_ids') : i < j => sent_ids'[i] < sent_ids'[j]
     /\ sent_ids' # sent_ids
        => /\ request_id' = request_id + 1
           /\ sent_ids' = Append(sent_ids, request_id')
     /\ \A c \in StdioCallers :
          /\ call[c].pc = "reading"
          /\ call[c].op = "initialize"
          /\ call'[c].pc = "idle"
          /\ ret'.out = "true"
          => request_id' = request_id /\ sent_ids' = sent_ids]_vars

\* the handshake was completed and three requests were written, the last
\* of them a tool request
C19_Witness ==
  /\ notified
  /\ Len(sent_ids) >= 3
  /\ ret.op \in ToolOps
  /\ ret.wrote
  /\ ret.id = sent_ids[Len(sent_ids)]

(***************************************************************************)
(* C20: no thread ever runs two event loops at once; a call of the bridge  *)
(* made while the calling thread's loop is running has the coroutine run   *)
(* by the worker thread on a loop of its own while the caller waits, and   *)
(* during that wait the loop of the calling thread can still run its ready *)
(* callbacks; a call made while no loop is running drives the coroutine on *)
(* the calling thread.                                                     *)
(***************************************************************************)
C20_BridgeKeepsScheduler ==
  /\ \A th \in Threads : running[th] <= 1
  /\ wrapper = "result" =>
       /\ loop = "running"
       /\ worker \in {"submitted", "looping", "finished"}
       /\ worker = "looping" => running["worker"] = 1
       /\ ready > 0 => ENABLED RunCallback
  /\ wrapper \in {"driving", "asyncio_run"} =>
       /\ worker = "none"
       /\ running = [th \in Threads |-> IF th = "caller" THEN 1 ELSE 0]

(***************************************************************************)
(* C21: when initialize has returned False, the server name has no entry   *)
(* in connections, no session and no health loop, is_connected() is false  *)
(* and SyncWhatsAppMCPClient.is_initialized() is false.                    *)
(***************************************************************************)
C21_FailedInitializeLeavesNothing ==
  \A n \in Servers :
    hist = [op |-> "initialize_false", name |-> n] =>
      /\ connections[n] = 0
      /\ sessions[n] = "none"
      /\ health_check_tasks[n] = 0
      /\ ~is_connected(n)
      /\ ~_initialized

(***************************************************************************)
(* C30: when WhatsAppMCPClient.disconnect has returned, is_connected() is  *)
(* false and the session is not authenticated and has the status           *)
(* "disconnected", also when the remote "disconnect" tool call failed.     *)
(***************************************************************************)
C30_DisconnectResets ==
  \A n \in Servers :
    hist = [op |-> "wa_disconnect", name |-> n] =>
      /\ ~is_connected(n)
      /\ ~session.is_authenticated
      /\ session.connection_status = "disconnected"

(***************************************************************************)
(* C22: the sleep a caller's execute_tool asks for after its failed        *)
(* attempt i, i < max_retries, is retry_delay * 2^(i-1); it asks for none  *)
(* after the last attempt and none after a successful one; a call whose    *)
(* max_retries attempts all failed has slept                               *)
(* retry_delay * (2^(max_retries-1) - 1) in total.                         *)
(***************************************************************************)
C22_BackoffDoubles ==
  [][\A p \in Callers :
       /\ task[p].pc # "backoff" /\ task'[p].pc = "backoff"
          => /\ task'[p].attempt < max_retries - 1
             /\ task'[p].delay = retry_delay * (2 ^ task'[p].attempt)
             /\ task'[p].slept = task[p].slept
       /\ task'[p].slept # task[p].slept
          => /\ task[p].pc = "backoff"
             /\ task'[p].slept = task[p].slept + task[p].delay
             /\ task'[p].sleeps = task[p].sleeps + 1
       /\ task'[p].slept = retry_delay * ((2 ^ task'[p].sleeps) - 1)
       /\ task'[p].sleeps <= max_retries - 1
       /\ task'[p].pc = "done" /\ task'[p].attempts = max_retries
          /\ task'[p].out = "MCPToolError"
          => task'[p].slept = retry_delay * ((2 ^ (max_retries - 1)) - 1)]_vars

\* a call has failed after max_retries attempts and two sleeps
C22_Witness ==
  \E p \in Callers :
    /\ Done(p)
    /\ task[p].out = "MCPToolError"
    /\ task[p].attempts = max_retries
    /\ task[p].sleeps = max_retries - 1
    /\ task[p].slept = 3 * retry_delay

(***************************************************************************)
(* C23: a failed attempt of a caller's execute_tool is retried after a     *)
(* backoff sleep whatever the class of the failure, unless it was attempt  *)
(* max_retries, so the call makes at most max_retries attempts; the retry  *)
(* loop reconnects only at the end of the sleep that follows a failure     *)
(* with MCPConnectionError, and the retry after any other failure leaves   *)
(* the connection as it is.                                                *)
(***************************************************************************)
C23_RetriesEveryFailure ==
  [][\A p \in Callers :
       /\ task'[p].attempts <= max_retries
       /\ task'[p].reconnects <= task'[p].connFails
       /\ task'[p].pc = "done" /\ task'[p].out = "MCPToolError"
          => /\ task'[p].attempts = max_retries
             /\ task'[p].connFails + task'[p].otherFails = max_retries
       /\ \/ task'[p].connFails = task[p].connFails + 1
          \/ task'[p].otherFails = task[p].otherFails + 1
          => IF task'[p].attempt < max_retries - 1
             THEN task'[p].pc = "backoff"
             ELSE task'[p].pc = "done" /\ task'[p].out = "MCPToolError"
       /\ task'[p].reconnects # task[p].reconnects
          => /\ task[p].pc = "backoff"
             /\ task[p].exc = "MCPConnectionError"
             /\ task[p].attempt < max_retries - 1
             /\ task'[p].reconnects = task[p].reconnects + 1
       /\ /\ task[p].pc = "backoff"
          /\ task[p].exc # "MCPConnectionError"
          /\ task'[p].pc # "backoff"
          => /\ task'[p].attempts = task[p].attempts + 1
             /\ connections' = connections
             /\ health_check_tasks' = health_check_tasks]_vars

\* a call has made max_retries attempts: the first failed with
\* MCPConnectionError and was followed by a reconnect, the others failed
\* otherwise and were retried without one
C23_Witness ==
  \E p \in Callers :
    /\ Done(p)
    /\ task[p].attempts = max_retries
    /\ task[p].connFails = 1
    /\ task[p].otherFails = max_retries - 1
    /\ task[p].exc = "MCPToolError"
    /\ task[p].reconnects = 1

(***************************************************************************)
(* C24: of every server name at most one health loop is unfinished, and    *)
(* an unfinished health loop is the task registered in                     *)
(* _health_check_tasks under its name.                                     *)
(***************************************************************************)
C24_OneHealthLoop ==
  \A n \in Servers :
    LET loops == {t \in HealthIds : /\ task[t].name = n
                                    /\ task[t].pc \notin {"unused", "hdone"}}
    IN /\ Cardinality(loops) <= 1
       /\ \A t \in loops : health_check_tasks[n] = t

(***************************************************************************)
(* C25: initialized becomes true only in the step in which an initialize   *)
(* call reads a line that carries the id of its request and has no error   *)
(* field; an initialize call whose read gives a line with an error field,  *)
(* a line with another id, a line that is not JSON or nothing returns      *)
(* False and leaves initialized and notified as they were, and a           *)
(* call_tool or list_tools started while initialized is false fails with   *)
(* the precondition error.                                                 *)
(***************************************************************************)
C25_ReadyOnlyOnMatchingResponse ==
  [][\A c \in StdioCallers :
       LET reads == call[c].pc = "reading" /\ call'[c].pc = "idle"
           matched == /\ stdout # <<>>
                      /\ Head(stdout) = call[c].id
                      /\ ret'.kind = "result"
       IN /\ reads /\ call[c].op = "initialize" /\ ~matched
             => /\ ret'.op = "initialize"
                /\ ret'.out = "false"
                /\ initialized' = initialized
                /\ notified' = notified
          /\ reads /\ call[c].op = "initialize" /\ ret'.out = "true"
             => matched /\ initialized' /\ notified'
          /\ ~initialized /\ initialized'
             => \E d \in StdioCallers :
                  /\ call[d].pc = "reading" /\ call'[d].pc = "idle"
                  /\ call[d].op = "initialize"
                  /\ stdout # <<>> /\ Head(stdout) = call[d].id
                  /\ ret'.kind = "result" /\ ret'.out = "true"
          /\ /\ call[c].pc = "idle" /\ ~initialized
             /\ ret' # ret /\ ret'.op \in ToolOps
             => ret'.out = "precondition" /\ ~initialized']_vars

\* an initialize call has read a line with an error field and returned
\* False, the client is not initialized and no notification was sent
C25_Witness ==
  /\ ret.op = "initialize"
  /\ ret.kind = "error"
  /\ ret.out = "false"
  /\ ~initialized
  /\ ~notified
  /\ process = "running"

(***************************************************************************)
(* C26: a call of _enforce_rate_limit sleeps for the per-minute ceiling of *)
(* its operation type only when the window holds at least that many        *)
(* admissions of its own type: admissions of the other types do not count. *)
(***************************************************************************)
C26_WindowPerCategory ==
  \A c \in RlCallers :
    limited[c].pc = "sleepMinute"
      => Len(SelectSeq(_request_timestamps,
                       LAMBDA e : e.op = limited[c].op))
           >= PerMinute(limited[c].op)

(***************************************************************************)
(* C28: the result a caller of execute_tool returns is never the response  *)
(* to a request of an earlier attempt of the same call, one that the       *)
(* caller had given up waiting for.                                        *)
(***************************************************************************)
C28_LateResponseNotTaken ==
  \A p \in Callers :
    Done(p) /\ task[p].out = "ok"
      => \A a \in 0..(max_retries - 1) :
           RequestId(p, a) < task[p].reqid
             => task[p].result # RequestId(p, a)

(***************************************************************************)
(* C29: when a suspended _close_connection resumes, the entry it deletes   *)
(* from connections is the Connection whose transport it closed: if the    *)
(* name has another Connection by then, installed by a connect that ran    *)
(* in between, that Connection and its Session are left as they are.       *)
(***************************************************************************)
C29_CloseDeletesItsOwn ==
  [][\A c \in closing :
       c \notin closing' /\ connections[c.name] # c.handle
         => /\ connections'[c.name] = connections[c.name]
            /\ sessions'[c.name] = sessions[c.name]]_vars

\* the caller p waits for a response on a transport that has been closed
ClosedWait(p) == Waiting(p) /\ handles[task[p].handle].state = "closed"

\* the number of failed attempts of the caller p
Failures(p) == task[p].connFails + task[p].otherFails

(***************************************************************************)
(* C27, as stated: a wait for a response on a transport that is closed     *)
(* while the call waits ends, and it ends with a failure of the attempt,   *)
(* in MCPClient and in MCPStdioClient.                                     *)
(***************************************************************************)
C27_ClosedWaitFails ==
  /\ ClosedWait(1) ~> ~ClosedWait(1)
  /\ (call[1].pc = "reading" /\ closed) ~> (call[1].pc # "reading")
  /\ [][ClosedWait(1) /\ ~ClosedWait(1)'
          => Failures(1)' = Failures(1) + 1]_vars
  /\ [][call[1].pc = "reading" /\ closed /\ call'[1].pc # "reading"
          => ret'.out \in {"false", "error"}]_vars

(***************************************************************************)
(* C27, amended: a wait for a response on a transport that is closed       *)
(* while the call waits ends, at the latest with its timeout, in MCPClient *)
(* and in MCPStdioClient; it ends with a failure of the attempt unless a   *)
(* response that was already written to the transport when it was closed   *)
(* is still unread, which the wait then reads like any other response.     *)
(***************************************************************************)
C27_ClosedWaitEnds ==
  /\ ClosedWait(1) ~> ~ClosedWait(1)
  /\ (call[1].pc = "reading" /\ closed) ~> (call[1].pc # "reading")
  /\ [][ClosedWait(1) /\ inbox[task[1].handle] = <<>> /\ ~ClosedWait(1)'
          => Failures(1)' = Failures(1) + 1]_vars
  /\ [][(call[1].pc = "reading" /\ closed /\ stdout = <<>>
           /\ call'[1].pc # "reading")
          => ret'.out \in {"false", "error"}]_vars

\* a call waits on a stdio transport that disconnect has closed, with
\* nothing left to read
C27_Witness ==
  /\ ClosedWait(1)
  /\ handles[task[1].handle].type = "stdio"
  /\ inbox[task[1].handle] = <<>>
  /\ connections[task[1].name] = 0

====
